---- MODULE Spec2Model ----
(***************************************************************************)
(* Greedy decode loop of chatbot_model.py (translate_sentence).            *)
(*                                                                         *)
(* An invocation of translate_sentence is a small state machine: the call  *)
(* to encoder_model.predict and the local initialisation, one step per     *)
(* iteration of the for-loop, and the final join.  Several invocations     *)
(* may be in flight at once (one per request); their steps interleave.     *)
(*                                                                         *)
(* Strings are sequences of one-character strings, so that ' '.join is     *)
(* modelled by what it does.  The encoder and the decoder are fixed but    *)
(* arbitrary deterministic functions: encoder_model and decoder_model hold *)
(* the part of their graphs that calls have observed so far; a call on an  *)
(* argument seen before returns the recorded value, a call on a new        *)
(* argument may return anything and the value is recorded.                 *)
(***************************************************************************)
EXTENDS Integers, Sequences, FiniteSets, TLC

\* ---------------------------------------------------------------- bounds
MaxSteps == 3        \* largest max_len of a single invocation, besides 5
MaxStepsConc == 2    \* largest max_len when two invocations interleave
MaxStepsLive == 3    \* largest max_len in the fair specification
NumTokens == 5       \* size of the output layer: token ids 0..NumTokens-1

\* ------------------------------------------------------------- constants
PAD_ID == 0          \* the literal 0 of the stop test
DEFAULT_BOS == 1     \* word2idx.get('<bos>', 1)
DEFAULT_EOS == 2     \* word2idx.get('<eos>', 2)

Procs == {1, 2}
TokenIds == 0..(NumTokens - 1)

\* words, as sequences of characters
SPACE == <<" ">>
UNK == <<"<", "u", "n", "k", ">">>
W_bos == <<"<", "b", "o", "s", ">">>
W_eos == <<"<", "e", "o", "s", ">">>
W_hi == <<"h", "i">>
W_there == <<"t", "h", "e", "r", "e">>

\* id-to-token mappings handed to translate_sentence
Idx2WordFull == (1 :> W_bos @@ 2 :> W_eos @@ 3 :> W_hi @@ 4 :> W_there)
Idx2WordPartial == (3 :> W_hi)
Idx2Words == {Idx2WordFull, Idx2WordPartial}

\* word-to-id mappings handed to translate_sentence
Word2IdxNone == [w \in {} |-> 0]
Word2IdxBoth == ("<bos>" :> 2 @@ "<eos>" :> 3)
Word2IdxBosOnly == ("<bos>" :> 3)
Word2Idxs == {Word2IdxNone, Word2IdxBoth, Word2IdxBosOnly}

\* padded input sequences (fixed length, right-padded with 0)
InputSeqs == {<<0, 0>>, <<3, 0>>}

\* state pairs [h, c] of the LSTM, abstracted to two distinguishable pairs
StatePairs == {<<0, 1>>, <<1, 0>>}

\* output distributions of the decoder's softmax layer (scores, scaled)
OneHot(k) == [t \in TokenIds |-> IF t = k THEN 2 ELSE 0]
TieDist == [t \in TokenIds |-> IF t \in {2, 3} THEN 1 ELSE 0]
Dists == {OneHot(k) : k \in TokenIds} \cup {TieDist}

\* what a call of the decoder can return: any distribution with any state
\* pair, or (to keep two interleaved invocations tractable) one of three
\* one-hot distributions with any state pair
AllOutputs == [output_tokens : Dists, hc : StatePairs]
FewOutputs == [output_tokens : {OneHot(2), OneHot(3), OneHot(4)}, hc : StatePairs]

VARIABLES
    pc,              \* position of each invocation
    input_seq,       \* argument input_seq
    max_len,         \* argument max_len
    word2idx,        \* argument word2idx (shared vocabulary)
    idx2word,        \* argument idx2word (shared vocabulary)
    encoder_model,   \* observed graph of encoder_model.predict
    decoder_model,   \* observed graph of decoder_model.predict
    decoder_range,   \* the outputs decoder_model.predict can produce
    states_value,    \* local states_value
    bos,             \* local bos
    eos,             \* local eos
    target_seq,      \* local target_seq, a 1x1 array
    output_sentence, \* local output_sentence
    i,               \* iterations of the for-loop started so far
    result,          \* returned string
    enc_calls,       \* calls of encoder_model.predict made by each invocation
    dec_calls        \* calls of decoder_model.predict made by each invocation

vars == <<pc, input_seq, max_len, word2idx, idx2word, encoder_model,
          decoder_model, decoder_range, states_value, bos, eos, target_seq,
          output_sentence, i, result, enc_calls, dec_calls>>

\* ------------------------------------------------------- pure functions

\* np.argmax: index of the first maximal entry
ArgMax(d) ==
    CHOOSE k \in DOMAIN d :
        /\ \A t \in DOMAIN d : d[t] <= d[k]
        /\ \A t \in DOMAIN d : d[t] = d[k] => k <= t

\* dict.get(key, default)
DictGet(dict, key, default) ==
    IF key \in DOMAIN dict THEN dict[key] ELSE default

\* bos = word2idx.get('<bos>', 1)
GetBos(w2i) == DictGet(w2i, "<bos>", DEFAULT_BOS)

\* variant: the mapped '<eos>' id is ignored
GetEosIgnoresMapping(w2i) == DEFAULT_EOS

\* eos = word2idx.get('<eos>', 2)
GetEos(w2i) == DictGet(w2i, "<eos>", DEFAULT_EOS)

\* variant: only the pad id stops the loop
IsStopPadOnly(idx, e) == idx = PAD_ID

\* the test of the break: sampled_token_index == eos or == 0
IsStop(idx, e) == idx = e \/ idx = PAD_ID

\* variant: a missing id renders as the empty string
LookupEmptyDefault(i2w, idx) == DictGet(i2w, idx, <<>>)

\* idx2word.get(sampled_token_index, '<unk>')
Lookup(i2w, idx) == DictGet(i2w, idx, UNK)

\* variant: one iteration too many
RangeHasNextInclusive(k, n) == k <= n

\* variant: one iteration too few
RangeHasNextShort(k, n) == k < n - 1

\* for _ in range(max_len): is there another iteration
RangeHasNext(k, n) == k < n

\* variant: ''.join(words)
RECURSIVE JoinNoSeparator(_)
JoinNoSeparator(words) ==
    IF Len(words) = 0 THEN <<>>
    ELSE words[1] \o JoinNoSeparator(Tail(words))

\* ' '.join(words)
RECURSIVE Join(_)
Join(words) ==
    IF Len(words) = 0 THEN <<>>
    ELSE IF Len(words) = 1 THEN words[1]
    ELSE words[1] \o SPACE \o Join(Tail(words))

\* variant: states_value is module-level state shared by all invocations
CurrentStatesShared(p) == states_value[1]

\* the states_value an invocation passes to the decoder
CurrentStates(p) == states_value[p]

\* variant: target_seq is module-level state shared by all invocations
CurrentTargetShared(p) == target_seq[1]

\* the target_seq an invocation passes to the decoder
CurrentTarget(p) == target_seq[p]

\* variant: the token is appended before the stop test
NextOutputAppendFirst(out, idx, e, i2w) == Append(out, Lookup(i2w, idx))

\* output_sentence after an iteration that selected idx
NextOutput(out, idx, e, i2w) ==
    IF IsStop(idx, e) THEN out ELSE Append(out, Lookup(i2w, idx))

\* target_seq after an iteration that selected idx
NextTarget(tgt, idx, e) ==
    IF IsStop(idx, e) THEN tgt ELSE <<idx>>

\* variant: the state pair returned by the decoder is dropped
NextStatesStale(sv, hc, idx, e) == sv

\* states_value after an iteration that selected idx and got state pair hc
NextStates(sv, hc, idx, e) ==
    IF IsStop(idx, e) THEN sv ELSE hc

\* encoder_model.predict(input_seq): the possible return values
EncoderPredict(seq) ==
    IF seq \in DOMAIN encoder_model
    THEN {encoder_model[seq]}
    ELSE StatePairs

\* decoder_model.predict([target_seq] + states_value): possible return values
DecoderPredict(tgt, sv) ==
    IF <<tgt, sv>> \in DOMAIN decoder_model
    THEN {decoder_model[<<tgt, sv>>]}
    ELSE decoder_range

Record(graph, arg, val) ==
    [a \in (DOMAIN graph) \cup {arg} |-> IF a = arg THEN val ELSE graph[a]]

\* ------------------------------------------------------------- actions

\* lines 77-82: run the encoder, read the markers, initialise the locals
Encode(p) ==
    /\ pc[p] = "start"
    /\ \E sv \in EncoderPredict(input_seq[p]) :
        /\ encoder_model' = Record(encoder_model, input_seq[p], sv)
        /\ states_value' = [states_value EXCEPT ![p] = sv]
    /\ enc_calls' = [enc_calls EXCEPT ![p] = @ + 1]
    /\ bos' = [bos EXCEPT ![p] = GetBos(word2idx)]
    /\ eos' = [eos EXCEPT ![p] = GetEos(word2idx)]
    /\ target_seq' = [target_seq EXCEPT ![p] = <<GetBos(word2idx)>>]
    /\ output_sentence' = [output_sentence EXCEPT ![p] = <<>>]
    /\ i' = [i EXCEPT ![p] = 0]
    /\ pc' = [pc EXCEPT ![p] = "loop"]
    /\ UNCHANGED <<input_seq, max_len, word2idx, idx2word, decoder_model,
                   decoder_range, result, dec_calls>>

\* lines 84-91: one iteration of the for-loop
LoopStep(p) ==
    /\ pc[p] = "loop"
    /\ RangeHasNext(i[p], max_len[p])
    /\ \E out \in DecoderPredict(CurrentTarget(p), CurrentStates(p)) :
        LET idx == ArgMax(out.output_tokens) IN
        /\ decoder_model' =
               Record(decoder_model, <<CurrentTarget(p), CurrentStates(p)>>, out)
        /\ dec_calls' = [dec_calls EXCEPT ![p] =
               Append(@, [target_seq |-> CurrentTarget(p),
                          states_value |-> CurrentStates(p),
                          idx |-> idx, hc |-> out.hc])]
        /\ output_sentence' = [output_sentence EXCEPT ![p] =
               NextOutput(@, idx, eos[p], idx2word)]
        /\ target_seq' = [target_seq EXCEPT ![p] = NextTarget(@, idx, eos[p])]
        /\ states_value' = [states_value EXCEPT ![p] =
               NextStates(@, out.hc, idx, eos[p])]
        /\ pc' = [pc EXCEPT ![p] = IF IsStop(idx, eos[p]) THEN "break" ELSE "loop"]
    /\ i' = [i EXCEPT ![p] = @ + 1]
    /\ UNCHANGED <<input_seq, max_len, word2idx, idx2word, encoder_model,
                   decoder_range, bos, eos, result, enc_calls>>

\* line 92: the loop is over (break or range exhausted); join and return
Return(p) ==
    /\ \/ pc[p] = "break"
       \/ pc[p] = "loop" /\ ~RangeHasNext(i[p], max_len[p])
    /\ result' = [result EXCEPT ![p] = Join(output_sentence[p])]
    /\ pc' = [pc EXCEPT ![p] = "done"]
    /\ UNCHANGED <<input_seq, max_len, word2idx, idx2word, encoder_model,
                   decoder_model, decoder_range, states_value, bos, eos, target_seq,
                   output_sentence, i, enc_calls, dec_calls>>

Next == \E p \in Procs : Encode(p) \/ LoopStep(p) \/ Return(p)

\* ------------------------------------------------------- initial states

\* what is common to all specifications: nothing has run yet
InitCommon ==
    /\ word2idx \in Word2Idxs
    /\ idx2word \in Idx2Words
    /\ input_seq \in [Procs -> InputSeqs]
    /\ encoder_model = [a \in {} |-> <<0, 1>>]
    /\ decoder_model = [a \in {} |-> [output_tokens |-> TieDist, hc |-> <<0, 1>>]]
    /\ states_value = [p \in Procs |-> <<>>]
    /\ bos = [p \in Procs |-> -1]
    /\ eos = [p \in Procs |-> -1]
    /\ target_seq = [p \in Procs |-> <<>>]
    /\ output_sentence = [p \in Procs |-> <<>>]
    /\ i = [p \in Procs |-> 0]
    /\ result = [p \in Procs |-> <<>>]
    /\ enc_calls = [p \in Procs |-> 0]
    /\ dec_calls = [p \in Procs |-> <<>>]

\* one invocation (invocation 2 is never made); max_len is small, or 5
Init ==
    /\ InitCommon
    /\ pc = [p \in Procs |-> IF p = 1 THEN "start" ELSE "off"]
    /\ max_len \in [Procs -> (0..MaxSteps) \cup {5}]
    /\ max_len[2] = 0
    /\ input_seq = [p \in Procs |-> <<0, 0>>]
    /\ decoder_range = AllOutputs

\* two invocations in flight
InitConc ==
    /\ InitCommon
    /\ pc = [p \in Procs |-> "start"]
    /\ max_len \in [Procs -> 0..MaxStepsConc]
    /\ word2idx \in {Word2IdxNone, Word2IdxBoth}
    /\ input_seq[1] = <<0, 0>>
    /\ decoder_range = FewOutputs

\* one invocation, for the fair specification
InitLive ==
    /\ InitCommon
    /\ pc = [p \in Procs |-> IF p = 1 THEN "start" ELSE "off"]
    /\ max_len \in [Procs -> 0..MaxStepsLive]
    /\ max_len[2] = 0
    /\ input_seq[2] = <<0, 0>>
    /\ decoder_range = AllOutputs

Spec == Init /\ [][Next]_vars

SpecConc == InitConc /\ [][Next]_vars

\* the loop is straight-line synchronous code: an invocation that can take
\* a step eventually takes it
FairSpec == InitLive /\ [][Next]_vars /\ \A p \in Procs :
    WF_vars(Encode(p) \/ LoopStep(p) \/ Return(p))

\* ------------------------------------------------------------ properties
\* The properties are stated from what an observer sees: the arguments of an
\* invocation, the calls it makes on the two models, and the string returned.

Active == {p \in Procs : pc[p] # "off"}

\* ids selected by the calls an invocation has made, in order
Picks(p) == [k \in 1..Len(dec_calls[p]) |-> dec_calls[p][k].idx]

\* the markers as the vocabulary defines them
ExpectedBos == IF "<bos>" \in DOMAIN word2idx THEN word2idx["<bos>"] ELSE 1
ExpectedEos == IF "<eos>" \in DOMAIN word2idx THEN word2idx["<eos>"] ELSE 2
StopIds == {ExpectedEos, 0}

\* surface token of an id
Surface(id) == IF id \in DOMAIN idx2word THEN idx2word[id] ELSE UNK

Take(seq, n) == SubSeq(seq, 1, IF n < Len(seq) THEN n ELSE Len(seq))

\* the ids of a sequence of picks that come before its first stop id
RECURSIVE BeforeFirstStop(_)
BeforeFirstStop(picks) ==
    IF picks = <<>> \/ picks[1] \in StopIds THEN <<>>
    ELSE <<picks[1]>> \o BeforeFirstStop(Tail(picks))

\* words separated by single spaces, built from the left
RECURSIVE SpaceSeparated(_)
SpaceSeparated(words) ==
    IF words = <<>> THEN <<>>
    ELSE IF Len(words) = 1 THEN words[1]
    ELSE SpaceSeparated(SubSeq(words, 1, Len(words) - 1))
             \o <<" ">> \o words[Len(words)]

\* number of space-separated tokens of a string
CountTokens(str) ==
    IF str = <<>> THEN 0
    ELSE 1 + Cardinality({k \in 1..Len(str) : str[k] = " "})

HiThere == <<"h", "i", " ", "t", "h", "e", "r", "e">>

NoStopPicked(p) == \A k \in 1..Len(dec_calls[p]) : Picks(p)[k] \notin StopIds

\* C1: every invocation terminates, having called the decoder at most
\* max_len times and the encoder exactly once.
C1_TerminatesWithinBudget ==
    /\ \A p \in Procs : (pc[p] = "start") ~> (pc[p] = "done")
    /\ [](\A p \in Active :
            /\ Len(dec_calls[p]) <= max_len[p]
            /\ enc_calls[p] = (IF pc[p] = "start" THEN 0 ELSE 1))

C1_Witness ==
    /\ pc[1] = "done"
    /\ max_len[1] >= 2
    /\ Len(dec_calls[1]) = max_len[1]
    /\ enc_calls[1] = 1

\* C2: the returned string is the surface tokens of the picks made before
\* the first stop pick (eos or pad 0), or of the first max_len picks when
\* there is none, in order, joined by single spaces; with the vocabulary
\* {1:<bos>, 2:<eos>, 3:hi, 4:there} and picks [3, 4, 2] it is "hi there".
C2_ReturnedString ==
    \A p \in Active : pc[p] = "done" =>
        LET kept == BeforeFirstStop(Take(Picks(p), max_len[p])) IN
        /\ result[p] = SpaceSeparated([k \in 1..Len(kept) |-> Surface(kept[k])])
        /\ (idx2word = Idx2WordFull /\ Picks(p) = <<3, 4, 2>>)
               => result[p] = HiThere

C2_Witness ==
    /\ pc[1] = "done"
    /\ idx2word = Idx2WordFull
    /\ Picks(1) = <<3, 4, 2>>
    /\ result[1] = HiThere

\* C3: when no stop id is picked in any of the max_len steps, the invocation
\* returns normally and the returned sentence has exactly max_len tokens.
C3_BudgetExhausted ==
    \A p \in Active :
        /\ (pc[p] = "done" /\ NoStopPicked(p)) =>
              /\ Len(output_sentence[p]) = max_len[p]
              /\ CountTokens(result[p]) = max_len[p]
              /\ result[p] = SpaceSeparated(output_sentence[p])
        /\ (pc[p] = "loop" /\ i[p] >= max_len[p] /\ NoStopPicked(p)) =>
              ENABLED Return(p)

C3_Witness ==
    /\ pc[1] = "done"
    /\ max_len[1] = 5
    /\ NoStopPicked(1)
    /\ Len(dec_calls[1]) = 5
    /\ CountTokens(result[1]) = 5

C5_Deterministic ==
    (/\ pc[1] = "done" /\ pc[2] = "done"
     /\ input_seq[1] = input_seq[2]
     /\ max_len[1] = max_len[2])
    => /\ result[1] = result[2]
       /\ dec_calls[1] = dec_calls[2]

C5_Witness ==
    /\ pc[1] = "done" /\ pc[2] = "done"
    /\ input_seq[1] = input_seq[2]
    /\ max_len[1] = max_len[2]
    /\ Len(dec_calls[1]) >= 2
    /\ dec_calls[1][1].hc # dec_calls[1][1].states_value
    /\ result[1] = result[2]
    /\ result[1] # <<>>

\* C6: a picked id that is not a stop id and has no entry in idx2word is
\* rendered as "<unk>", is fed back to the decoder, and does not stop the loop.
C6_UnknownId ==
    \A p \in Active : \A k \in 1..Len(dec_calls[p]) :
        LET id == Picks(p)[k] IN
        (id \notin StopIds /\ id \notin DOMAIN idx2word) =>
            /\ Len(output_sentence[p]) >= k
            /\ output_sentence[p][k] = UNK
            /\ k < Len(dec_calls[p]) => dec_calls[p][k + 1].target_seq = <<id>>
            /\ k = Len(dec_calls[p]) =>
                  /\ target_seq[p] = <<id>>
                  /\ \/ pc[p] = "done"
                     \/ pc[p] = "loop" /\ (ENABLED LoopStep(p) \/ ENABLED Return(p))

C6_Witness ==
    /\ pc[1] = "done"
    /\ Len(dec_calls[1]) >= 2
    /\ Picks(1)[1] \notin StopIds
    /\ Picks(1)[1] \notin DOMAIN idx2word
    /\ dec_calls[1][2].target_seq = <<Picks(1)[1]>>
    /\ output_sentence[1][1] = UNK

\* C7: the loop starts from the mapped '<bos>' id, or from 1 when word2idx
\* has none, and stops on the mapped '<eos>' id, or on 2 when word2idx has
\* none; id 2 does not stop the loop when '<eos>' is mapped to another id.
C7_MarkerDefaults ==
    \A p \in Active : pc[p] # "start" =>
        /\ bos[p] = ExpectedBos
        /\ eos[p] = ExpectedEos
        /\ Len(dec_calls[p]) >= 1 => dec_calls[p][1].target_seq = <<ExpectedBos>>
        /\ \A k \in 1..Len(dec_calls[p]) :
              /\ Picks(p)[k] = ExpectedEos =>
                    (k = Len(dec_calls[p]) /\ pc[p] \in {"break", "done"})
              /\ (Picks(p)[k] = 2 /\ ExpectedEos # 2) =>
                    /\ Len(output_sentence[p]) >= k
                    /\ output_sentence[p][k] = Surface(2)
                    /\ k = Len(dec_calls[p]) => pc[p] # "break"

C7_Witness ==
    /\ pc[1] = "done"
    /\ word2idx = Word2IdxBosOnly
    /\ Len(dec_calls[1]) = 2
    /\ max_len[1] > 2
    /\ dec_calls[1][1].target_seq = <<3>>
    /\ Picks(1)[2] = 2

\* C8: a stop pick (eos or pad 0) ends the loop at once: it is the last
\* decoder call of the invocation, nothing is appended for it, and every
\* token of the output is rendered from a pick that is not a stop id.
C8_StopImmediately ==
    \A p \in Active :
        /\ \A k \in 1..Len(dec_calls[p]) :
              Picks(p)[k] \in StopIds =>
                 /\ k = Len(dec_calls[p])
                 /\ pc[p] \in {"break", "done"}
                 /\ Len(output_sentence[p]) = k - 1
                 /\ ~ENABLED LoopStep(p)
        /\ \A j \in 1..Len(output_sentence[p]) :
              /\ j <= Len(dec_calls[p])
              /\ Picks(p)[j] \notin StopIds
              /\ output_sentence[p][j] = Surface(Picks(p)[j])

C8_Witness ==
    /\ pc[1] = "done"
    /\ Len(dec_calls[1]) = 2
    /\ max_len[1] > 2
    /\ Picks(1)[2] = 0
    /\ Len(output_sentence[1]) = 1

\* C9: the first decoder call receives the '<bos>' id and the encoder's
\* state pair; call k > 1 receives exactly one token, the id picked by call
\* k-1, and the state pair returned by call k-1.
C9_Feedback ==
    \A p \in Active : \A k \in 1..Len(dec_calls[p]) :
        /\ Len(dec_calls[p][k].target_seq) = 1
        /\ k = 1 =>
              /\ dec_calls[p][1].target_seq = <<ExpectedBos>>
              /\ input_seq[p] \in DOMAIN encoder_model
              /\ dec_calls[p][1].states_value = encoder_model[input_seq[p]]
        /\ k > 1 =>
              /\ dec_calls[p][k].target_seq = <<dec_calls[p][k - 1].idx>>
              /\ dec_calls[p][k].states_value = dec_calls[p][k - 1].hc

C9_Witness ==
    /\ Len(dec_calls[1]) >= 3
    /\ dec_calls[1][1].hc # dec_calls[1][1].states_value
    /\ dec_calls[1][2].hc # dec_calls[1][1].hc
    /\ dec_calls[1][3].states_value = dec_calls[1][2].hc
    /\ dec_calls[1][3].target_seq = <<dec_calls[1][2].idx>>
    /\ dec_calls[1][2].idx # dec_calls[1][1].idx

\* what an invocation returns when it runs alone against the same models:
\* the sequential run of the loop over the observed graphs
RECURSIVE SoloOutput(_, _, _, _)
SoloOutput(tgt, sv, n, out) ==
    IF n = 0 THEN out
    ELSE IF <<tgt, sv>> \notin DOMAIN decoder_model THEN <<<<"?">>>>
    ELSE LET r == decoder_model[<<tgt, sv>>]
             id == ArgMax(r.output_tokens)
         IN  IF id \in StopIds THEN out
             ELSE SoloOutput(<<id>>, r.hc, n - 1, Append(out, Surface(id)))

SoloResult(p) ==
    IF input_seq[p] \notin DOMAIN encoder_model THEN <<"?">>
    ELSE SpaceSeparated(SoloOutput(<<ExpectedBos>>, encoder_model[input_seq[p]],
                                   max_len[p], <<>>))

\* the locals of an invocation
Locals(p) == <<states_value[p], bos[p], eos[p], target_seq[p],
               output_sentence[p], i[p], result[p], pc[p]>>

\* C10: under any interleaving each invocation returns what it returns when
\* run alone; a step of one invocation leaves the locals of the other alone,
\* and no step writes the vocabulary or changes a model's recorded behaviour.
C10_Isolation ==
    /\ [](\A p \in Procs : pc[p] = "done" => result[p] = SoloResult(p))
    /\ [][/\ word2idx' = word2idx
          /\ idx2word' = idx2word
          /\ \A a \in DOMAIN encoder_model :
                a \in DOMAIN encoder_model' /\ encoder_model'[a] = encoder_model[a]
          /\ \A a \in DOMAIN decoder_model :
                a \in DOMAIN decoder_model' /\ decoder_model'[a] = decoder_model[a]
          /\ \A p \in Procs :
                (Locals(p)' # Locals(p)) =>
                    \A q \in Procs \ {p} : Locals(q)' = Locals(q)]_vars

\* invocation 1 has returned while invocation 2 is in the middle of its loop
C10_Witness ==
    /\ pc[1] = "done" /\ pc[2] = "loop"
    /\ Len(dec_calls[1]) = 2 /\ Len(dec_calls[2]) = 1
    /\ i[2] < max_len[2]
    /\ result[1] = SoloResult(1)
    /\ result[1] # <<>>
    /\ states_value[1] # states_value[2]
    /\ target_seq[1] # target_seq[2]

====
